---- MODULE Spec2Model ----
(***************************************************************************)
(* Model of estimagic/visualization/interactive_distribution_plot.py.      *)
(*                                                                         *)
(* Two specifications share the variables below.                           *)
(*   SpecHist  the data function add_histogram_columns_to_tidy_df, called  *)
(*             on bounded tidy DataFrames.                                 *)
(*   Spec      the entry point interactive_distribution_plot followed by   *)
(*             the browser-side callbacks of the plots it created.         *)
(*                                                                         *)
(* Floating point numbers are modelled as exact rationals on two scales:   *)
(* [n, d, e] is (n / d) * (1e-50)^e.  The only rounding that is modelled   *)
(* is the absorption of a 1e-50-scale addend by a non-zero number of       *)
(* ordinary scale (x - 1e-51 == x in float64 for every x of the model).    *)
(* d = 0 is NaN.  Row positions are 1-based (0-based in the source).       *)
(***************************************************************************)
EXTENDS Integers, Sequences, FiniteSets, TLC

\* ------------------------------------------------------------------ bounds
MaxRows == 3
MaxNumBins == 2
MaxPlotRows == 3
MaxArrLen == 3
MaxWidgetRows == 2

\* plots, observation values, subgroup values and ids of the DataFrames
\* (group1, group2): a first-level group of two plots and one of one plot
GroupKeys == {<<1, 1>>, <<1, 2>>, <<2, 1>>}
ValueVals == {0, 1, 3}
SubgroupVals == {1, 2, 3}
IdVals == {1, 2}

\* ------------------------------------------------------------- float64
RECURSIVE GCD(_, _)
GCD(a, b) == IF b = 0 THEN a ELSE GCD(b, a % b)

AbsInt(i) == IF i < 0 THEN -i ELSE i

NaN == [n |-> 0, d |-> 0, e |-> 0]

IsNaN(x) == x.d = 0

\* normal form: lowest terms, positive denominator, zero on scale 0
Num(n, d, e) ==
    IF n = 0 THEN [n |-> 0, d |-> 1, e |-> 0]
    ELSE LET g == GCD(AbsInt(n), AbsInt(d))
             s == IF d < 0 THEN -1 ELSE 1
         IN  [n |-> s * (n \div g), d |-> s * (d \div g), e |-> e]

IntF(i) == Num(i, 1, 0)

\* 1e-50, the lower clip of the data range in _calculate_x_bounds
Tiny == [n |-> 1, d |-> 1, e |-> 1]

FNeg(a) == IF IsNaN(a) THEN NaN ELSE [a EXCEPT !.n = -a.n]

\* a + b; an addend of a smaller scale is absorbed by a non-zero number
FAdd(a, b) ==
    IF IsNaN(a) \/ IsNaN(b) THEN NaN
    ELSE IF a.n = 0 THEN b
    ELSE IF b.n = 0 THEN a
    ELSE IF a.e = b.e THEN Num(a.n * b.d + b.n * a.d, a.d * b.d, a.e)
    ELSE IF a.e < b.e THEN a
    ELSE b

FSub(a, b) == FAdd(a, FNeg(b))

FMul(a, b) ==
    IF IsNaN(a) \/ IsNaN(b) THEN NaN
    ELSE Num(a.n * b.n, a.d * b.d, a.e + b.e)

FDivInt(a, k) ==
    IF IsNaN(a) \/ k = 0 THEN NaN ELSE Num(a.n, a.d * k, a.e)

\* comparisons are exact; every comparison with NaN is false
FLess(a, b) ==
    /\ ~IsNaN(a)
    /\ ~IsNaN(b)
    /\ IF a.e = b.e THEN a.n * b.d < b.n * a.d
       ELSE IF a.e < b.e THEN (IF a.n # 0 THEN a.n < 0 ELSE b.n > 0)
       ELSE (IF b.n # 0 THEN b.n > 0 ELSE a.n < 0)

FLeq(a, b) == ~IsNaN(a) /\ ~IsNaN(b) /\ ~FLess(b, a)

FMaxOf(S) == CHOOSE x \in S : \A y \in S : FLeq(y, x)

FMinOf(S) == CHOOSE x \in S : \A y \in S : FLeq(x, y)

\* np.float64.clip(a_min)
FClip(x, a_min) == IF FLess(x, a_min) THEN a_min ELSE x

Range(s) == {s[i] : i \in 1..Len(s)}

\* a sequence with every element evaluated once
Force(s) == SubSeq(s, 1, Len(s))

\* ------------------------------------------------------ data functions
\* a missing value (None / NaN) in a column of the input DataFrame
Null == -1

\* mutant: a missing id does not drop the row
notnull_all_but_id(row) ==
    /\ row.g1 # Null
    /\ row.g2 # Null
    /\ row.sub # Null
    /\ row.val # Null

\* df[drop_if_nan_cols].notnull().all(axis=1) for one row
notnull_all(row) ==
    /\ row.g1 # Null
    /\ row.g2 # Null
    /\ row.sub # Null
    /\ row.val # Null
    /\ row.id # Null

\* order of sort_values(group_cols + [subgroup_col, value_col]); the sort is
\* stable, so rows with equal keys keep the order of their index
sort_values_less(df, i, j) ==
    LET a == df[i]
        b == df[j]
    IN  \/ a.g1 < b.g1
        \/ a.g1 = b.g1 /\ a.g2 < b.g2
        \/ a.g1 = b.g1 /\ a.g2 = b.g2 /\ a.sub < b.sub
        \/ a.g1 = b.g1 /\ a.g2 = b.g2 /\ a.sub = b.sub /\ a.val < b.val
        \/ a.g1 = b.g1 /\ a.g2 = b.g2 /\ a.sub = b.sub /\ a.val = b.val /\ i < j

\* the index labels of the rows kept, in sorted order
sorted_index(df) ==
    LET kept == {i \in 1..Len(df) : notnull_all(df[i])}
        asc == [i \in 1..Len(df) |-> i]
    IN  SortSeq(SelectSeq(asc, LAMBDA i : i \in kept),
                LAMBDA i, j : sort_values_less(df, i, j))

\* x_min and x_max around the data range, given the white space
x_bounds_around(raw_min, raw_max, white_space) ==
    [x_min |-> FSub(raw_min, white_space), x_max |-> FAdd(raw_max, white_space)]

\* white_space of a data range
white_space_of(raw_min, raw_max, padding) ==
    FMul(FClip(FSub(raw_max, raw_min), Tiny), padding)

\* mutant: the padding is taken relative to the maximum, not to the data range
white_space_of_max(raw_min, raw_max, padding) ==
    FMul(FClip(raw_max, Tiny), padding)

x_bounds_of(raw_min, raw_max, padding) ==
    x_bounds_around(raw_min, raw_max, white_space_of(raw_min, raw_max, padding))

\* mutant of _calculate_x_bounds built on white_space_of_max
_calculate_x_bounds_of_max(vals, padding) ==
    x_bounds_around(FMinOf(vals), FMaxOf(vals),
                    white_space_of_max(FMinOf(vals), FMaxOf(vals), padding))

_calculate_x_bounds(vals, padding) ==
    x_bounds_of(FMinOf(vals), FMaxOf(vals), padding)

\* the bins of np.linspace for a given step
linspace_bins(start, stop, num, step) ==
    [bins |-> [i \in 1..num |->
                 IF i = num THEN stop ELSE FAdd(FMul(IntF(i - 1), step), start)],
     step |-> step]

\* np.linspace(start, stop, num, retstep=True) for num >= 2
linspace(start, stop, num) ==
    linspace_bins(start, stop, num, FDivInt(FSub(stop, start), num - 1))

\* pd.cut(x, bins, labels=labels): "raise" or the function value -> label
cut_raises(bins) ==
    \/ \E i \in 1..(Len(bins) - 1) : FLess(bins[i + 1], bins[i])
    \/ Cardinality(Range(bins)) < Len(bins) /\ Len(bins) # 2

cut(x, bins, labels) ==
    LET ids == Cardinality({i \in 1..Len(bins) : FLess(bins[i], x)})
    IN  IF ids = 0 \/ ids = Len(bins) THEN NaN ELSE labels[ids]

\* midpoints = bins[:-1] + rect_width / 2, then pd.cut of every value
cut_to_midpoints(vals, bins, rect_width, num_bins) ==
    [raises |-> cut_raises(bins),
     binned_x |-> [v \in vals |->
                     cut(v, bins, [j \in 1..num_bins |->
                                     FAdd(bins[j], FDivInt(rect_width, 2))])],
     rect_width |-> rect_width]

bin_group(vals, ls, num_bins) ==
    cut_to_midpoints(vals, Force(ls.bins), ls.step, num_bins)

bin_group_in(vals, xb, num_bins) ==
    bin_group(vals, linspace(xb.x_min, xb.x_max, num_bins + 1), num_bins)

_bin_width_and_midpoints_per_group(vals, num_bins, x_padding) ==
    bin_group_in(vals, _calculate_x_bounds(vals, x_padding), num_bins)

\* the values of the rows of one first-level group (group_cols[:-1])
group_values(rows, g1) == {rows[i].val : i \in {k \in 1..Len(rows) : rows[k].g1 = g1}}

\* grouped.apply over the first-level groups: one record per group value
_bin_width_and_midpoints(rows, num_bins, x_padding) ==
    [g \in {rows[i].g1 : i \in 1..Len(rows)} |->
        _bin_width_and_midpoints_per_group(group_values(rows, g), num_bins, x_padding)]

\* mutant: the bricks are counted per first-level group and bin, not per plot
cumcount_per_group(rows, k, na_counted) ==
    IF IsNaN(rows[k].binned_x)
    THEN IF na_counted
         THEN IntF(Cardinality({j \in 1..(k - 1) : IsNaN(rows[j].binned_x)}))
         ELSE NaN
    ELSE IntF(Cardinality({j \in 1..(k - 1) :
                 /\ rows[j].g1 = rows[k].g1
                 /\ rows[j].binned_x = rows[k].binned_x}))

\* groupby(group_cols + ["binned_x"]).cumcount() for the row at position k.
\* Rows whose binned_x is NaN belong to no group: depending on the pandas
\* version they are numbered among themselves (na_counted) or get NaN.
cumcount(rows, k, na_counted) ==
    IF IsNaN(rows[k].binned_x)
    THEN IF na_counted
         THEN IntF(Cardinality({j \in 1..(k - 1) : IsNaN(rows[j].binned_x)}))
         ELSE NaN
    ELSE IntF(Cardinality({j \in 1..(k - 1) :
                 /\ rows[j].g1 = rows[k].g1
                 /\ rows[j].g2 = rows[k].g2
                 /\ rows[j].binned_x = rows[k].binned_x}))

\* str(i) of a non-negative integer
Digits == <<"0", "1", "2", "3", "4", "5", "6", "7", "8", "9">>

RECURSIVE Str(_)
Str(i) == IF i < 10 THEN Digits[i + 1] ELSE Str(i \div 10) \o Digits[(i % 10) + 1]

StrLabel(i) == [t |-> "str", s |-> Str(i), f |-> 0]

FloatLabel(i) == [t |-> "float", s |-> "", f |-> i]

\* number of distinct values from which a numeric subgroup column stays numeric
UniqueThreshold == 10

\* sr.astype(str) below the threshold, else sr.astype(float); the subgroup
\* column of the model holds integers, for which astype(float) never raises
_clean_subgroup_col(sr) ==
    IF Cardinality(Range(sr)) < UniqueThreshold
    THEN [k \in 1..Len(sr) |-> StrLabel(sr[k])]
    ELSE [k \in 1..Len(sr) |-> FloatLabel(sr[k])]

\* sr.unique(): the distinct values in order of first appearance
unique(sr) ==
    SelectSeq([k \in 1..Len(sr) |-> IF \E j \in 1..(k - 1) : sr[j] = sr[k]
                                    THEN [t |-> "dup", s |-> "", f |-> 0]
                                    ELSE sr[k]],
              LAMBDA v : v.t # "dup")

\* estimagic.dashboard.plotting_functions.get_color_palette: nr_colors colours
\* taken in turn from a fixed list
BaseColors == <<"#547482", "#C87259">>

get_color_palette(nr_colors) ==
    [i \in 1..nr_colors |-> BaseColors[((i - 1) % Len(BaseColors)) + 1]]

\* the label itself, for a value that zip() left out of color_dict
LabelText(v) == IF v.t = "str" THEN v.s ELSE Str(v.f) \o ".0"

\* mutant: the palette is zipped with the rows instead of the unique values
_create_color_col_by_row(sr) ==
    LET palette == get_color_palette(Len(unique(sr)))
    IN  [k \in 1..Len(sr) |->
           IF k <= Len(palette) THEN palette[k] ELSE LabelText(sr[k])]

_create_color_col(sr) ==
    LET subgroup_vals == unique(sr)
        palette == get_color_palette(Len(subgroup_vals))
        pos(v) == CHOOSE i \in 1..Len(subgroup_vals) : subgroup_vals[i] = v
    IN  [k \in 1..Len(sr) |->
           IF pos(sr[k]) <= Len(palette) THEN palette[pos(sr[k])]
           ELSE LabelText(sr[k])]

\* hist_data after notnull filter, sort_values and reset_index
base_rows(df, idx) ==
    [k \in 1..Len(idx) |->
        [index |-> idx[k], g1 |-> df[idx[k]].g1, g2 |-> df[idx[k]].g2,
         sub |-> df[idx[k]].sub, val |-> IntF(df[idx[k]].val), id |-> df[idx[k]].id]]

\* hist_data[["binned_x", "rect_width"]] = ... for one row
with_bin(row, b) ==
    row @@ [binned_x |-> b.binned_x[row.val], rect_width |-> b.rect_width]

binned_rows(base, bw) == [k \in 1..Len(base) |-> with_bin(base[k], bw[base[k].g1])]

\* the dodge, subgroup and color columns
finished_rows(binned, sub, color, na_counted) ==
    [k \in 1..Len(binned) |->
        [binned[k] EXCEPT !.sub = sub[k]]
            @@ [dodge |-> FAdd(Num(1, 2, 0), cumcount(binned, k, na_counted)),
                color |-> color[k]]]

colored_rows(binned, sub, na_counted) ==
    finished_rows(binned, sub, Force(_create_color_col(sub)), na_counted)

raw_subgroup_col(binned) == [k \in 1..Len(binned) |-> binned[k].sub]

table_of(binned, bw, na_counted) ==
    IF \E g \in DOMAIN bw : bw[g].raises
    THEN [exc |-> "ValueError", rows |-> <<>>]
    ELSE [exc |-> "none",
          rows |-> colored_rows(binned,
                                Force(_clean_subgroup_col(raw_subgroup_col(binned))),
                                na_counted)]

binned_table(base, bw, na_counted) ==
    table_of(Force(binned_rows(base, bw)), bw, na_counted)

sorted_table(base, num_bins, x_padding, na_counted) ==
    binned_table(base, _bin_width_and_midpoints(base, num_bins, x_padding),
                 na_counted)

\* The table returned by add_histogram_columns_to_tidy_df, or the exception
\* that pd.cut raises out of it.
add_histogram_columns_to_tidy_df(df, num_bins, x_padding, na_counted) ==
    sorted_table(Force(base_rows(df, sorted_index(df))), num_bins, x_padding,
                 na_counted)

\* --------------------------------------------------- styling functions
\* int(): truncation towards zero
IntTrunc(x) == IF x.n >= 0 THEN x.n \div x.d ELSE -((-x.n) \div x.d)

\* int(a / b) for integers a and b > 0
IntDivTrunc(a, b) == IF a >= 0 THEN a \div b ELSE -((-a) \div b)

\* data["dodge"].max(): NaN entries are skipped, NaN if nothing is left
dodge_max(data) ==
    LET ds == {data[k].dodge : k \in 1..Len(data)}
        real == {x \in ds : ~IsNaN(x)}
    IN  IF real = {} THEN NaN ELSE FMaxOf(real)

\* Python's min(a, b) and max(a, b): the first argument unless the second
\* compares smaller (larger); a NaN first argument is therefore returned
PyMin(a, b) == IF FLess(b, a) THEN b ELSE a

PyMax(a, b) == IF FLess(a, b) THEN b ELSE a

\* space reserved for the title of a first-level group
SpaceOfTitle == 50

\* plot height below which the plots may not render well
MinReadableHeight == 50

n_groups(data) == Cardinality({data[k].g1 : k \in 1..Len(data)})

n_params(data) == Cardinality({<<data[k].g1, data[k].g2>> : k \in 1..Len(data)})

\* figure_height = Null stands for None.  raises: int(NaN) of an all-NaN
\* dodge column
_determine_plot_height(figure_height, data) ==
    LET auto == PyMax(PyMin(FMul(IntF(30), dodge_max(data)), IntF(1000)), IntF(100))
        fh == IF figure_height = Null THEN IntTrunc(auto) ELSE figure_height
        available_space == fh - n_groups(data) * SpaceOfTitle
        plot_height == IntDivTrunc(available_space, n_params(data))
    IN  IF figure_height = Null /\ IsNaN(auto)
        THEN [raises |-> TRUE, plot_height |-> 0, warned |-> FALSE]
        ELSE [raises |-> FALSE, plot_height |-> plot_height,
              warned |-> plot_height < MinReadableHeight]

\* the two switches _style_x_axis sets on the x axis of a parameter plot
_style_x_axis(new_group, axis_for_every_parameter) ==
    IF ~axis_for_every_parameter
    THEN IF new_group
         THEN [visible |-> FALSE, axis_line |-> TRUE, zero_line |-> TRUE]
         ELSE [visible |-> TRUE, axis_line |-> FALSE, zero_line |-> TRUE]
    ELSE [visible |-> TRUE, axis_line |-> TRUE, zero_line |-> FALSE]

\* -------------------------------------------------------- plot functions
\* plot_height of the figure _create_base_plot creates
ParamPlotHeight == 200

\* plot_height of the figure title_fig creates
TitleFigHeight == 50

FMinSkipNa(S) ==
    LET real == {x \in S : ~IsNaN(x)} IN IF real = {} THEN NaN ELSE FMinOf(real)

FMaxSkipNa(S) ==
    LET real == {x \in S : ~IsNaN(x)} IN IF real = {} THEN NaN ELSE FMaxOf(real)

\* without confidence bound columns
_calculate_x_range(data, group_val) ==
    LET whole == {k \in 1..Len(data) : data[k].g1 = group_val}
        rect_width == data[CHOOSE k \in whole : \A j \in whole : k <= j].rect_width
        xs == {data[k].binned_x : k \in whole}
    IN  [start |-> FSub(FMinSkipNa(xs), rect_width),
         end |-> FAdd(FMaxSkipNa(xs), rect_width)]

\* mutant: a label column gets no widget
_create_group_widgets_float_only(data) ==
    IF data[1].sub.t = "float"
    THEN <<[kind |-> "slider", group1 |-> 0, group2 |-> 0, plot_height |-> 0,
            xaxis_visible |-> FALSE, x_range |-> [start |-> NaN, end |-> NaN]]>>
    ELSE <<>>

\* the subgroup widget: checkboxes for a label column, a slider for a float one
_create_group_widgets(data) ==
    IF data[1].sub.t = "float"
    THEN <<[kind |-> "slider", group1 |-> 0, group2 |-> 0, plot_height |-> 0,
            xaxis_visible |-> FALSE, x_range |-> [start |-> NaN, end |-> NaN]]>>
    ELSE <<[kind |-> "checkboxes", group1 |-> 0, group2 |-> 0, plot_height |-> 0,
            xaxis_visible |-> FALSE, x_range |-> [start |-> NaN, end |-> NaN]]>>

title_fig(group1) ==
    [kind |-> "title", group1 |-> group1, group2 |-> 0,
     plot_height |-> TitleFigHeight, xaxis_visible |-> TRUE,
     x_range |-> [start |-> NaN, end |-> NaN]]

_create_base_plot(group1, group2, x_range, new_group, axis_for_every_parameter) ==
    [kind |-> "param", group1 |-> group1, group2 |-> group2,
     plot_height |-> ParamPlotHeight,
     xaxis_visible |-> _style_x_axis(new_group, axis_for_every_parameter).visible,
     x_range |-> x_range]

\* the (group1, group2) pairs of df.groupby(group_cols), in sorted order
group_keys(data) ==
    SortSeq(SelectSeq([k \in 1..Len(data) |->
                         IF \E j \in 1..(k - 1) :
                               data[j].g1 = data[k].g1 /\ data[j].g2 = data[k].g2
                         THEN <<0, 0>> ELSE <<data[k].g1, data[k].g2>>],
                      LAMBDA key : key # <<0, 0>>),
            LAMBDA a, b : a[1] < b[1] \/ (a[1] = b[1] /\ a[2] < b[2]))

\* the loop of _create_plots over the first n groups
RECURSIVE plots_of_groups(_, _, _, _)
plots_of_groups(data, keys, n, axis_for_every_parameter) ==
    IF n = 0 THEN <<>>
    ELSE LET group1 == keys[n][1]
             group2 == keys[n][2]
             new_group == n = 1 \/ keys[n - 1][1] # group1
             x_range == _calculate_x_range(data, group1)
             before == plots_of_groups(data, keys, n - 1, axis_for_every_parameter)
             fig == _create_base_plot(group1, group2, x_range, new_group,
                                      axis_for_every_parameter)
         IN  IF new_group THEN before \o <<title_fig(group1), fig>>
             ELSE Append(before, fig)

value_column_slider ==
    [kind |-> "value_slider", group1 |-> 0, group2 |-> 0, plot_height |-> 0,
     xaxis_visible |-> FALSE, x_range |-> [start |-> NaN, end |-> NaN]]

\* the list _create_plots returns: value slider, subgroup widget, figures
_create_plots(data, axis_for_every_parameter) ==
    LET keys == group_keys(data)
    IN  <<value_column_slider>> \o _create_group_widgets(data)
           \o plots_of_groups(data, keys, Len(keys), axis_for_every_parameter)

\* ---------------------------------------------------- callback functions
\* The CustomJS code of _add_select_tools: chosen is source.selected.indices
\* as the tool left it, data the rows of the ColumnDataSource.
\* mutant: the selection is left as the tool set it
select_callback_unlinked(chosen, data) == chosen

select_callback(chosen, data) ==
    LET chosen_ids == [i \in 1..Len(chosen) |-> data[chosen[i]].id]
        all_rows == [i \in 1..Len(data) |-> i]
    IN  SelectSeq(all_rows, LAMBDA i : data[i].id \in Range(chosen_ids))

\* the elements of a set of row positions as an ascending array
RECURSIVE AscSeq(_)
AscSeq(S) ==
    IF S = {} THEN <<>>
    ELSE LET m == CHOOSE x \in S : \A y \in S : y <= x
         IN  Append(AscSeq(S \ {m}), m)

\* checkbox_labels = df[subgroup_col].unique().tolist()
checkbox_labels(data) == unique(raw_subgroup_col(data))

HasWidget(widgets, kind) == \E w \in 1..Len(widgets) : widgets[w].kind = kind

\* the numbers of a float subgroup column
subgroup_numbers(data) == {IntF(data[k].sub.f) : k \in 1..Len(data)}

\* active=list(range(len(checkbox_labels))), as the set of positions
initial_active(data, widgets) ==
    IF HasWidget(widgets, "checkboxes") THEN 1..Len(checkbox_labels(data)) ELSE {}

\* value=(sr.min(), sr.max()) of the subgroup slider
initial_group_slider(data, widgets) ==
    IF HasWidget(widgets, "slider")
    THEN <<FMinOf(subgroup_numbers(data)), FMaxOf(subgroup_numbers(data))>>
    ELSE <<NaN, NaN>>

\* value=(val_min, val_max) of the value slider, without bound columns
initial_value_slider(data) ==
    <<FMinOf({data[k].val : k \in 1..Len(data)}),
      FMaxOf({data[k].val : k \in 1..Len(data)})>>

\* IndexFilter(group_df.index)
index_filter(data, group1, group2) ==
    {i \in 1..Len(data) : data[i].g1 = group1 /\ data[i].g2 = group2}

\* the CustomJSFilter of _create_checkbox_filter
checkbox_filter(active, labels, data) ==
    {i \in 1..Len(data) : data[i].sub \in {labels[a] : a \in active}}

\* the CustomJSFilter of _create_slider_filter
slider_filter(slider_value, data) ==
    {i \in 1..Len(data) : /\ FLeq(slider_value[1], IntF(data[i].sub.f))
                          /\ FLeq(IntF(data[i].sub.f), slider_value[2])}

\* the rows a CDSView with the filters of _create_filters lets through
_create_filters(data, group1, group2, widgets, active, slider_value) ==
    {i \in index_filter(data, group1, group2) :
        /\ HasWidget(widgets, "checkboxes")
              => i \in checkbox_filter(active, checkbox_labels(data), data)
        /\ HasWidget(widgets, "slider") => i \in slider_filter(slider_value, data)}

\* The CustomJS code of _add_value_slider_in_front. Its plots are plots[1:] of
\* the list without the value slider, the entries from the third on of the
\* list returned; the loop ends at an entry without x_range.
value_slider_callback(plots, slider_value) ==
    [i \in 1..Len(plots) |->
        IF i >= 3 /\ \A j \in 3..i : plots[j].kind \in {"title", "param"}
        THEN [plots[i] EXCEPT !.x_range = [start |-> slider_value[1],
                                           end |-> slider_value[2]]]
        ELSE plots[i]]

\* ------------------------------------------------ comparison_plot helpers
\* array[array <= value]; a comparison with NaN is False
candidates_below(array, value) == SelectSeq(array, LAMBDA x : FLess(x, value))

candidates_up_to(array, value) == SelectSeq(array, LAMBDA x : FLeq(x, value))

\* candidates.max() of a non-empty array without NaN
RECURSIVE array_max(_)
array_max(candidates) ==
    IF Len(candidates) = 1 THEN candidates[1]
    ELSE PyMax(array_max(Tail(candidates)), Head(candidates))

max_or_nan(candidates) ==
    IF Len(candidates) > 0 THEN array_max(candidates) ELSE NaN

\* mutant: an element equal to value is no candidate
_find_next_lower_strict(array, value) == max_or_nan(candidates_below(array, value))

\* the next lower element to value in array, NaN if there is none
_find_next_lower(array, value) == max_or_nan(candidates_up_to(array, value))

\* ------------------------------------------------------------------ state
VARIABLES
    pc,                        \* "idle", "returned", "raised" or "shown"
    exc,                       \* the exception raised, "none" if none
    df,                        \* the DataFrame passed in, a sequence of rows
    num_bins,
    x_padding,
    group_cols,                \* [kind, len] of the group_cols argument
    height_arg,                \* the height argument, Null for None
    axis_for_every_parameter,
    hist_data,                 \* the table of add_histogram_columns_to_tidy_df
    height,                    \* the local variable height after line 111
    warned,                    \* warnings.warn was called
    plots,                     \* the list handed to gridplot
    shown,                     \* show(grid) was called
    chosen,                    \* the indices the select tool chose last
    selected,                  \* source.selected.indices
    checkboxes_active,         \* checkboxes.active, positions of the labels
    group_slider_value,        \* value of the subgroup slider
    value_slider_value,        \* value of the value slider
    arr,                       \* the array handed to _find_next_lower
    value,                     \* the value handed to _find_next_lower
    next_lower                 \* what _find_next_lower returned

findVars == <<arr, value, next_lower>>

plotVars == <<pc, exc, df, num_bins, x_padding, group_cols, height_arg,
              axis_for_every_parameter, hist_data, height, warned, plots, shown,
              chosen, selected>>

widgetVars == <<checkboxes_active, group_slider_value, value_slider_value>>

vars == <<plotVars, widgetVars, findVars>>

\* ----------------------------------------------------------------- inputs
Rows(Keys, Subs, Vals, Ids) ==
    {[g1 |-> key[1], g2 |-> key[2], sub |-> su, val |-> v, id |-> i] :
        key \in Keys, su \in Subs, v \in Vals, i \in Ids}

SeqsUpTo(S, n) == UNION {[1..k -> S] : k \in 1..n}

\* DataFrames for the data function: every plot and value with one subgroup,
\* and one plot with every subgroup
\* rows of one plot: two complete ones and one for every column that may hold
\* a missing value (the two group columns are tested alike, one stands for both)
RowsWithNulls ==
    Rows({<<1, 1>>}, {1}, {0, 1}, {1})
      \cup Rows({<<1, Null>>}, {1}, {0}, {1})
      \cup Rows({<<1, 1>>}, {Null}, {0}, {1})
      \cup Rows({<<1, 1>>}, {1}, {Null}, {1})
      \cup Rows({<<1, 1>>}, {1}, {0}, {Null})

HistDFs ==
    SeqsUpTo(Rows(GroupKeys, {1}, ValueVals, {1}), MaxRows)
      \cup SeqsUpTo(Rows({<<1, 1>>}, SubgroupVals, {0, 1}, {1}), MaxRows)
      \cup SeqsUpTo(RowsWithNulls, MaxRows)

\* DataFrames for the entry point: every plot with one id, and the two plots
\* of one first-level group with every id
PlotDFs ==
    SeqsUpTo(Rows(GroupKeys, {1}, {0, 1}, {1}), MaxPlotRows)
      \cup SeqsUpTo(Rows({<<1, 1>>, <<1, 2>>}, {1}, {0}, IdVals), MaxPlotRows)

NumBinsVals == 1..MaxNumBins

\* x_padding: 0 and 1/2
PaddingVals == {Num(0, 1, 0), Num(1, 2, 0)}

HeightVals == {Null, 60, 300}

\* the default of x_padding
DefaultPadding == Num(1, 10, 0)

\* group_cols: a list, another sized object (tuple, str) or an object
\* without len() (None), of 0 to 3 entries
GroupColsVals ==
    [kind : {"list", "sized"}, len : 0..3] \cup {[kind |-> "unsized", len |-> 0]}

Init ==
    /\ pc = "idle"
    /\ exc = "none"
    /\ df = <<>>
    /\ num_bins = 0
    /\ x_padding = NaN
    /\ group_cols = [kind |-> "list", len |-> 0]
    /\ height_arg = Null
    /\ axis_for_every_parameter = FALSE
    /\ hist_data = <<>>
    /\ height = Null
    /\ warned = FALSE
    /\ plots = <<>>
    /\ shown = FALSE
    /\ chosen = <<>>
    /\ selected = <<>>
    /\ checkboxes_active = {}
    /\ group_slider_value = <<NaN, NaN>>
    /\ value_slider_value = <<NaN, NaN>>
    /\ arr = <<>>
    /\ value = NaN
    /\ next_lower = NaN

\* ------------------------------------------------------------ SpecHist
\* the arguments of a call of add_histogram_columns_to_tidy_df
InitHist ==
    /\ pc = "idle"
    /\ exc = "none"
    /\ df \in HistDFs
    /\ num_bins \in NumBinsVals
    /\ x_padding \in PaddingVals
    /\ group_cols = [kind |-> "list", len |-> 2]
    /\ height_arg = Null
    /\ axis_for_every_parameter = FALSE
    /\ hist_data = <<>>
    /\ height = Null
    /\ warned = FALSE
    /\ plots = <<>>
    /\ shown = FALSE
    /\ chosen = <<>>
    /\ selected = <<>>
    /\ checkboxes_active = {}
    /\ group_slider_value = <<NaN, NaN>>
    /\ value_slider_value = <<NaN, NaN>>
    /\ arr = <<>>
    /\ value = NaN
    /\ next_lower = NaN

\* the call itself. When no row is left after the notnull filter,
\* grouped.apply returns a frame without the two columns assigned at line 469:
\* depending on the pandas build the assignment raises or leaves an empty table
AddHistogramColumns ==
    /\ pc = "idle"
    /\ \/ \E na_counted \in BOOLEAN :
             LET r == add_histogram_columns_to_tidy_df(df, num_bins, x_padding,
                                                       na_counted)
             IN  /\ exc' = r.exc
                 /\ hist_data' = r.rows
                 /\ pc' = IF r.exc = "none" THEN "returned" ELSE "raised"
       \/ /\ sorted_index(df) = <<>>
          /\ exc' = "ValueError"
          /\ hist_data' = <<>>
          /\ pc' = "raised"
    /\ UNCHANGED <<df, num_bins, x_padding, group_cols, height_arg,
                   axis_for_every_parameter, height, warned, plots, shown,
                   chosen, selected, widgetVars, findVars>>

NextHist == AddHistogramColumns

SpecHist == InitHist /\ [][NextHist]_vars

\* ------------------------------------------------------------ SpecFind
\* the arrays of the tests of _find_next_lower
TestSorted == [i \in 1..15 |-> IntF(i - 1)]

TestUnsorted == <<IntF(3), IntF(5), IntF(1), IntF(0), IntF(-10), IntF(-5), IntF(0)>>

TestLowest == <<IntF(3), IntF(5), IntF(0)>>

ArrVals == {IntF(-10), IntF(-5), IntF(0), IntF(3), NaN}

\* every short array, the empty one and the arrays of the tests
FindArrs == SeqsUpTo(ArrVals, MaxArrLen) \cup {<<>>, TestSorted, TestUnsorted, TestLowest}

\* -2.5, 5.5, 5, -10, 45 of the tests, and 0, -11 and NaN
FindVals ==
    {Num(-5, 2, 0), Num(11, 2, 0), IntF(5), IntF(-10), IntF(45), IntF(0),
     IntF(-11), NaN}

InitFind ==
    /\ pc = "idle"
    /\ exc = "none"
    /\ df = <<>>
    /\ num_bins = 0
    /\ x_padding = NaN
    /\ group_cols = [kind |-> "list", len |-> 0]
    /\ height_arg = Null
    /\ axis_for_every_parameter = FALSE
    /\ hist_data = <<>>
    /\ height = Null
    /\ warned = FALSE
    /\ plots = <<>>
    /\ shown = FALSE
    /\ chosen = <<>>
    /\ selected = <<>>
    /\ checkboxes_active = {}
    /\ group_slider_value = <<NaN, NaN>>
    /\ value_slider_value = <<NaN, NaN>>
    /\ arr \in FindArrs
    /\ value \in FindVals
    /\ next_lower = NaN

\* a call of _find_next_lower
FindNextLower ==
    /\ pc = "idle"
    /\ next_lower' = _find_next_lower(arr, value)
    /\ pc' = "found"
    /\ UNCHANGED <<exc, df, num_bins, x_padding, group_cols, height_arg,
                   axis_for_every_parameter, hist_data, height, warned, plots,
                   shown, chosen, selected, widgetVars, arr, value>>

NextFind == FindNextLower

SpecFind == InitFind /\ [][NextFind]_vars

\* ---------------------------------------------------------------- Spec
\* the guard on group_cols: the exception it raises, "none" if it passes
\* mutant: only more than two group columns are refused
check_group_cols_more_than_two(gc) ==
    IF gc.kind = "unsized" THEN "TypeError"
    ELSE IF gc.len > 2 THEN "NotImplementedError"
    ELSE "none"

\* len() of an object without a length raises TypeError before type() is asked
check_group_cols(gc) ==
    IF gc.kind = "unsized" THEN "TypeError"
    ELSE IF gc.len # 2 \/ gc.kind # "list" THEN "NotImplementedError"
    ELSE "none"

\* lines 108-111: _determine_plot_height is called only for height = None
resolve_height(h, data) ==
    IF h = Null THEN _determine_plot_height(h, data)
    ELSE [raises |-> FALSE, plot_height |-> h, warned |-> FALSE]

\* lines 113-126, given the table and the resolved height
plot_and_show(data, ph, axis) ==
    IF ph.raises
    THEN [exc |-> "ValueError", hist_data |-> data, height |-> Null,
          warned |-> FALSE, plots |-> <<>>, shown |-> FALSE,
          active |-> {}, group_slider |-> <<NaN, NaN>>,
          value_slider |-> <<NaN, NaN>>]
    ELSE [exc |-> "none", hist_data |-> data, height |-> ph.plot_height,
          warned |-> ph.warned, plots |-> _create_plots(data, axis),
          shown |-> TRUE,
          active |-> initial_active(data, _create_group_widgets(data)),
          group_slider |-> initial_group_slider(data, _create_group_widgets(data)),
          value_slider |-> initial_value_slider(data)]

\* lines 108-126, given the result of add_histogram_columns_to_tidy_df
plot_table(t, h, axis) ==
    IF t.exc # "none"
    THEN [exc |-> t.exc, hist_data |-> <<>>, height |-> h,
          warned |-> FALSE, plots |-> <<>>, shown |-> FALSE,
          active |-> {}, group_slider |-> <<NaN, NaN>>,
          value_slider |-> <<NaN, NaN>>]
    ELSE plot_and_show(t.rows, resolve_height(h, t.rows), axis)

\* the body of interactive_distribution_plot after the guard
plot_body(d, nb, pad, h, axis, na_counted) ==
    plot_table(add_histogram_columns_to_tidy_df(d, nb, pad, na_counted), h, axis)

Returns(r) ==
    /\ exc' = r.exc
    /\ hist_data' = r.hist_data
    /\ height' = r.height
    /\ warned' = r.warned
    /\ plots' = r.plots
    /\ shown' = r.shown
    /\ checkboxes_active' = r.active
    /\ group_slider_value' = r.group_slider
    /\ value_slider_value' = r.value_slider
    /\ pc' = IF r.shown THEN "shown" ELSE "raised"

\* a call of interactive_distribution_plot; of a call the guard refuses only
\* group_cols is recorded
InteractiveDistributionPlot ==
    /\ pc = "idle"
    /\ \E gc \in GroupColsVals :
          /\ group_cols' = gc
          /\ IF check_group_cols(gc) # "none"
             THEN /\ exc' = check_group_cols(gc)
                  /\ pc' = "raised"
                  /\ UNCHANGED <<df, num_bins, x_padding, height_arg,
                                 axis_for_every_parameter, hist_data, height,
                                 warned, plots, shown, widgetVars>>
             ELSE \E d \in PlotDFs, h \in HeightVals, axis \in BOOLEAN,
                     na_counted \in BOOLEAN :
                     /\ df' = d
                     /\ num_bins' = MaxNumBins
                     /\ x_padding' = DefaultPadding
                     /\ height_arg' = h
                     /\ axis_for_every_parameter' = axis
                     /\ Returns(plot_body(d, MaxNumBins, DefaultPadding, h, axis,
                                          na_counted))
    /\ UNCHANGED <<chosen, selected, findVars>>

\* a brick is drawn when it has a position
Drawn(k) == ~IsNaN(hist_data[k].binned_x) /\ ~IsNaN(hist_data[k].dodge)

\* the tool set source.selected.indices to picked, then the callback ran
Select(picked) ==
    /\ chosen' = picked
    /\ selected' = select_callback(picked, hist_data)
    /\ UNCHANGED <<pc, exc, df, num_bins, x_padding, group_cols, height_arg,
                   axis_for_every_parameter, hist_data, height, warned, plots,
                   shown, widgetVars, findVars>>

\* TapTool on one brick
TapSelect ==
    /\ pc = "shown"
    /\ \E k \in 1..Len(hist_data) : Drawn(k) /\ Select(<<k>>)

\* BoxSelectTool over some bricks of one plot
BoxSelect ==
    /\ pc = "shown"
    /\ \E p \in 1..Len(plots) :
          /\ plots[p].kind = "param"
          /\ \E S \in SUBSET {k \in 1..Len(hist_data) :
                                /\ Drawn(k)
                                /\ hist_data[k].g1 = plots[p].group1
                                /\ hist_data[k].g2 = plots[p].group2} :
                Select(AscSeq(S))

Next == InteractiveDistributionPlot \/ TapSelect \/ BoxSelect

Spec == Init /\ [][Next]_vars

\* --------------------------------------------------------- SpecWidgets
\* DataFrames for the widgets: two plots with two subgroup labels, and one
\* with ten subgroup values, which _clean_subgroup_col turns into floats
TenSubgroups ==
    [k \in 1..10 |-> [g1 |-> 1, g2 |-> IF k <= 5 THEN 1 ELSE 2, sub |-> k,
                      val |-> k % 2, id |-> 1]]

WidgetDFs ==
    SeqsUpTo(Rows({<<1, 1>>, <<1, 2>>}, {1, 2}, {0, 1}, {1}), MaxWidgetRows)
      \cup {TenSubgroups}

\* x_padding: the default and 0
WidgetPaddingVals == {DefaultPadding, Num(0, 1, 0)}

\* the values a user drags the subgroup slider to
GroupSliderStops == {IntF(1), IntF(5), IntF(6), IntF(10)}

\* the values a user drags the value slider to
ValueSliderVals ==
    {<<IntF(0), IntF(1)>>, <<IntF(0), Num(1, 2, 0)>>, <<Num(1, 2, 0), IntF(1)>>}

\* the arguments of a call of interactive_distribution_plot
InitWidgets ==
    /\ pc = "idle"
    /\ exc = "none"
    /\ df \in WidgetDFs
    /\ num_bins = MaxNumBins
    /\ x_padding \in WidgetPaddingVals
    /\ group_cols = [kind |-> "list", len |-> 2]
    /\ height_arg = Null
    /\ axis_for_every_parameter = FALSE
    /\ hist_data = <<>>
    /\ height = Null
    /\ warned = FALSE
    /\ plots = <<>>
    /\ shown = FALSE
    /\ chosen = <<>>
    /\ selected = <<>>
    /\ checkboxes_active = {}
    /\ group_slider_value = <<NaN, NaN>>
    /\ value_slider_value = <<NaN, NaN>>
    /\ arr = <<>>
    /\ value = NaN
    /\ next_lower = NaN

\* the call with these arguments
ShowPlot ==
    /\ pc = "idle"
    /\ \E na_counted \in BOOLEAN :
          Returns(plot_body(df, num_bins, x_padding, height_arg,
                            axis_for_every_parameter, na_counted))
    /\ UNCHANGED <<df, num_bins, x_padding, group_cols, height_arg,
                   axis_for_every_parameter, chosen, selected, findVars>>

\* the user ticks or unticks checkboxes
ChangeCheckboxes ==
    /\ pc = "shown"
    /\ HasWidget(_create_group_widgets(hist_data), "checkboxes")
    /\ \E active \in SUBSET (1..Len(checkbox_labels(hist_data))) :
          checkboxes_active' = active
    /\ UNCHANGED <<plotVars, group_slider_value, value_slider_value, findVars>>

\* the user drags the ends of the subgroup slider
ChangeGroupSlider ==
    /\ pc = "shown"
    /\ HasWidget(_create_group_widgets(hist_data), "slider")
    /\ \E lower_bound \in GroupSliderStops, upper_bound \in GroupSliderStops :
          /\ FLeq(lower_bound, upper_bound)
          /\ group_slider_value' = <<lower_bound, upper_bound>>
    /\ UNCHANGED <<plotVars, checkboxes_active, value_slider_value, findVars>>

\* the user drags the ends of the value slider, its callback runs
ChangeValueSlider ==
    /\ pc = "shown"
    /\ \E slider_value \in ValueSliderVals :
          /\ value_slider_value' = slider_value
          /\ plots' = Force(value_slider_callback(plots, slider_value))
    /\ UNCHANGED <<pc, exc, df, num_bins, x_padding, group_cols, height_arg,
                   axis_for_every_parameter, hist_data, height, warned, shown,
                   chosen, selected, checkboxes_active, group_slider_value,
                   findVars>>

NextWidgets ==
    ShowPlot \/ ChangeCheckboxes \/ ChangeGroupSlider \/ ChangeValueSlider

SpecWidgets == InitWidgets /\ [][NextWidgets]_vars

\* --------------------------------------------- claims on the data function
RowsOf(data) == 1..Len(data)

\* the rows that share plot and bin with row k
SameBin(data, k) ==
    {j \in RowsOf(data) : /\ data[j].g1 = data[k].g1
                          /\ data[j].g2 = data[k].g2
                          /\ data[j].binned_x = data[k].binned_x}

\* C1: in the returned table the k rows of one (group1, group2, binned_x)
\* combination have pairwise distinct dodge values, exactly 0.5, ..., k - 0.5.
C1_DodgeStacks ==
    pc = "returned" =>
        \A k \in RowsOf(hist_data) :
            ~IsNaN(hist_data[k].binned_x) =>
                LET bin == SameBin(hist_data, k)
                    dodges == {hist_data[j].dodge : j \in bin}
                IN  /\ Cardinality(dodges) = Cardinality(bin)
                    /\ dodges = {Num(2 * i - 1, 2, 0) : i \in 1..Cardinality(bin)}

C1_Witness ==
    /\ pc = "returned"
    /\ \E k \in RowsOf(hist_data) :
          /\ ~IsNaN(hist_data[k].binned_x)
          /\ Cardinality(SameBin(hist_data, k)) >= 2
    /\ \E k, j \in RowsOf(hist_data) :
          /\ hist_data[k].g1 = hist_data[j].g1
          /\ hist_data[k].g2 # hist_data[j].g2
          /\ hist_data[k].binned_x = hist_data[j].binned_x
          /\ ~IsNaN(hist_data[k].binned_x)

OriginalColumns == {"g1", "g2", "sub", "val", "id"}

\* the index labels of the input rows without a missing value
CompleteRows == {i \in 1..Len(df) : \A c \in OriginalColumns : df[i][c] # Null}

\* the values of the input rows of first-level group g, rows with a missing
\* value left aside
InputGroupValues(g) == {IntF(df[i].val) : i \in {k \in CompleteRows : df[k].g1 = g}}

HalfWidth(row) == FDivInt(row.rect_width, 2)

\* C2: for x_padding > 0 and num_bins >= 1 every row's binned_x is the midpoint
\* of the bin its value falls into: value in (binned_x - rect_width/2,
\* binned_x + rect_width/2] and binned_x = xmin + (j + 1/2) * rect_width for a
\* bin number j in 0..num_bins-1 of the row's first-level group.
C2_BinnedXIsMidpoint ==
    (pc = "returned" /\ FLess(IntF(0), x_padding) /\ num_bins >= 1) =>
        \A k \in RowsOf(hist_data) :
            LET row == hist_data[k]
                xmin == _calculate_x_bounds(InputGroupValues(row.g1), x_padding).x_min
            IN  /\ FLess(FSub(row.binned_x, HalfWidth(row)), row.val)
                /\ FLeq(row.val, FAdd(row.binned_x, HalfWidth(row)))
                /\ \E j \in 0..(num_bins - 1) :
                      row.binned_x =
                          FAdd(xmin, FMul(Num(2 * j + 1, 2, 0), row.rect_width))

\* C7: rows of one first-level group share rect_width, and their binned_x
\* values differ by an integer multiple of it, whatever their second group.
C7_BinsComparable ==
    pc = "returned" =>
        \A k, j \in RowsOf(hist_data) :
            (k # j /\ hist_data[k].g1 = hist_data[j].g1) =>
                /\ hist_data[k].rect_width = hist_data[j].rect_width
                /\ \E m \in (0 - num_bins)..num_bins :
                      FSub(hist_data[k].binned_x, hist_data[j].binned_x)
                          = FMul(IntF(m), hist_data[k].rect_width)

\* C8: for a first-level group whose values are not all equal,
\* xmin = min - x_padding * (max - min), xmax = max + x_padding * (max - min),
\* rect_width = (xmax - xmin) / num_bins, and the range is cut into exactly
\* num_bins bins of that width.
C8_RangeAndBins ==
    pc = "returned" =>
        \A k \in RowsOf(hist_data) :
            LET vals == InputGroupValues(hist_data[k].g1)
                lo == FMinOf(vals)
                hi == FMaxOf(vals)
                xmin == FSub(lo, FMul(x_padding, FSub(hi, lo)))
                xmax == FAdd(hi, FMul(x_padding, FSub(hi, lo)))
                xb == _calculate_x_bounds(vals, x_padding)
                bins == linspace(xb.x_min, xb.x_max, num_bins + 1).bins
            IN  FLess(lo, hi) =>
                    /\ xb.x_min = xmin
                    /\ xb.x_max = xmax
                    /\ hist_data[k].rect_width = FDivInt(FSub(xmax, xmin), num_bins)
                    /\ Len(bins) = num_bins + 1
                    /\ bins[1] = xmin
                    /\ bins[num_bins + 1] = xmax
                    /\ \A i \in 1..num_bins :
                          FSub(bins[i + 1], bins[i]) = hist_data[k].rect_width

C8_Witness ==
    /\ pc = "returned"
    /\ FLess(IntF(0), x_padding)
    /\ num_bins >= 2
    /\ \E k, j \in RowsOf(hist_data) :
          /\ hist_data[k].g1 = hist_data[j].g1
          /\ FLess(hist_data[k].val, hist_data[j].val)

\* C10: provided the palette has as many distinct colours as there are
\* distinct subgroup values, two rows of the returned table have the same
\* colour if and only if they have the same cleaned subgroup value.
C10_ColourBySubgroup ==
    (/\ pc = "returned"
     /\ Cardinality({hist_data[k].sub : k \in RowsOf(hist_data)})
            <= Cardinality(Range(BaseColors))) =>
        \A k, j \in RowsOf(hist_data) :
            (hist_data[k].color = hist_data[j].color)
                <=> (hist_data[k].sub = hist_data[j].sub)

C10_Witness ==
    /\ pc = "returned"
    /\ Cardinality({hist_data[k].sub : k \in RowsOf(hist_data)}) = 2
    /\ \E k, j \in RowsOf(hist_data) :
          /\ k # j
          /\ hist_data[k].sub = hist_data[j].sub
          /\ hist_data[k].color = hist_data[j].color
    /\ \E k, j \in RowsOf(hist_data) : hist_data[k].color # hist_data[j].color

\* ------------------------------------------------ claims on the entry point
NothingBuilt == hist_data = <<>> /\ plots = <<>> /\ ~shown

\* C3 as stated: whenever group_cols is not a list of exactly two column names
\* the call raises NotImplementedError, before any table or plot exists.
C3_RaisesNotImplemented ==
    (pc # "idle" /\ ~(group_cols.kind = "list" /\ group_cols.len = 2)) =>
        (exc = "NotImplementedError" /\ NothingBuilt)

\* C3 amended: a group_cols that has a length and is not a list of exactly two
\* entries raises NotImplementedError, one without a length raises TypeError
\* out of len(); either way no table and no plot exists and nothing is shown,
\* and a list of two entries raises neither.
C3_GuardRaisesFirst ==
    pc # "idle" =>
        /\ (group_cols.kind # "unsized"
              /\ ~(group_cols.kind = "list" /\ group_cols.len = 2))
               => (exc = "NotImplementedError" /\ NothingBuilt)
        /\ group_cols.kind = "unsized" => (exc = "TypeError" /\ NothingBuilt)
        /\ (group_cols.kind = "list" /\ group_cols.len = 2)
               => exc \notin {"NotImplementedError", "TypeError"}

C3_Witness ==
    /\ pc = "raised"
    /\ group_cols.kind = "list"
    /\ group_cols.len = 3
    /\ exc = "NotImplementedError"

\* the figure height a call works with: the one specified, else the default
\* int(max(min(30 * highest dodge, 1000), 100))
FigureHeight ==
    IF height_arg # Null THEN height_arg
    ELSE IntTrunc(PyMax(PyMin(FMul(IntF(30), dodge_max(hist_data)), IntF(1000)),
                        IntF(100)))

ComputedPlotHeight ==
    IntDivTrunc(FigureHeight - 50 * n_groups(hist_data), n_params(hist_data))

\* C4: a warning is issued exactly when the computed plot height
\* int((figure_height - 50 * groups) / plots) is below 50, also for a figure
\* height the caller specified, and the computed height is returned.
C4_WarnsBelowThreshold ==
    pc = "shown" =>
        /\ warned <=> ComputedPlotHeight < 50
        /\ height_arg = Null => height = ComputedPlotHeight

ParamPlots == {p \in 1..Len(plots) : plots[p].kind = "param"}

\* C5: the height argument (or the computed height, for None) is the height
\* of the parameter plots the call produces.
C5_HeightSetsPlotHeight ==
    pc = "shown" => \A p \in ParamPlots : plots[p].plot_height = height

\* C9: with axis_for_every_parameter False exactly one parameter plot of
\* every first-level group has a visible x axis.
C9_OneAxisPerGroup ==
    (pc = "shown" /\ ~axis_for_every_parameter) =>
        \A g \in {plots[p].group1 : p \in ParamPlots} :
            Cardinality({p \in ParamPlots :
                            plots[p].group1 = g /\ plots[p].xaxis_visible}) = 1

\* ------------------------------------------------ claims on the callbacks
ChosenIds == {hist_data[chosen[i]].id : i \in 1..Len(chosen)}

\* C6: after a tap or box selection the selection is exactly the set of rows,
\* of every plot, whose id is the id of a chosen brick, and the callback run
\* on that selection returns it unchanged.
C6_SelectionLinksIds ==
    pc = "shown" =>
        /\ Range(selected) = {k \in RowsOf(hist_data) : hist_data[k].id \in ChosenIds}
        /\ Range(chosen) \subseteq Range(selected)
        /\ Len(selected) = Cardinality(Range(selected))
        /\ select_callback(selected, hist_data) = selected

C6_Witness ==
    /\ pc = "shown"
    /\ Len(chosen) = 1
    /\ \E k \in Range(selected) :
          /\ k \notin Range(chosen)
          /\ hist_data[k].g2 # hist_data[chosen[1]].g2
    /\ \E k \in RowsOf(hist_data) : k \notin Range(selected)

\* ------------------------------------------------ claims on the frame
\* C11: the rows of the returned table are exactly the input rows without a
\* missing value in the group, subgroup, value and id columns, each once, and
\* every row has its input values in the group, value and id columns and the
\* input subgroup value as its label.
C11_OnlyAddsColumns ==
    pc = "returned" =>
        /\ {hist_data[k].index : k \in RowsOf(hist_data)} = CompleteRows
        /\ Len(hist_data) = Cardinality(CompleteRows)
        /\ \A k \in RowsOf(hist_data) :
              /\ hist_data[k].g1 = df[hist_data[k].index].g1
              /\ hist_data[k].g2 = df[hist_data[k].index].g2
              /\ hist_data[k].id = df[hist_data[k].index].id
              /\ hist_data[k].val = IntF(df[hist_data[k].index].val)
              /\ hist_data[k].sub \in {StrLabel(df[hist_data[k].index].sub),
                                       FloatLabel(df[hist_data[k].index].sub)}

C11_Witness ==
    /\ pc = "returned"
    /\ Len(hist_data) = 2
    /\ Len(df) = 3
    /\ \E i \in 1..Len(df) : df[i].id = Null
    /\ hist_data[1].index > hist_data[2].index

\* ------------------------------------------ claims on comparison_plot helpers
\* the positions of the elements of arr that are less than or equal to value
NotAbove == {i \in 1..Len(arr) : FLeq(arr[i], value)}

\* C12: _find_next_lower(arr, val) is the largest element of arr that is less
\* than or equal to val, whatever the order of arr, and NaN when arr has no
\* such element; for [3, 5, 1, 0, -10, -5, 0] and -2.5 it is -5.
C12_FindNextLower ==
    pc = "found" =>
        /\ NotAbove = {} => IsNaN(next_lower)
        /\ NotAbove # {} =>
              /\ \E i \in NotAbove : arr[i] = next_lower
              /\ \A i \in NotAbove : FLeq(arr[i], next_lower)
        /\ (arr = TestUnsorted /\ value = Num(-5, 2, 0)) => next_lower = IntF(-5)

C12_Witness ==
    /\ pc = "found"
    /\ arr = TestUnsorted
    /\ value = Num(-5, 2, 0)
    /\ next_lower = IntF(-5)

\* ------------------------------------------------ claims on the widgets
\* the subgroup value of row k is selected in the subgroup widget
SubgroupSelected(k) ==
    \/ \E a \in checkboxes_active :
          /\ a \in 1..Len(checkbox_labels(hist_data))
          /\ checkbox_labels(hist_data)[a] = hist_data[k].sub
    \/ /\ hist_data[k].sub.t = "float"
       /\ FLeq(group_slider_value[1], IntF(hist_data[k].sub.f))
       /\ FLeq(IntF(hist_data[k].sub.f), group_slider_value[2])

\* the bricks plot p displays: the rows its view lets through and that have a
\* position
Displayed(p) ==
    {k \in _create_filters(hist_data, plots[p].group1, plots[p].group2,
                           _create_group_widgets(hist_data), checkboxes_active,
                           group_slider_value) : Drawn(k)}

\* all checkboxes are active, or the slider spans min to max
AllSubgroupsSelected ==
    \/ /\ hist_data[1].sub.t = "str"
       /\ checkboxes_active = 1..Len(checkbox_labels(hist_data))
    \/ /\ hist_data[1].sub.t = "float"
       /\ \A k \in RowsOf(hist_data) :
             /\ FLeq(group_slider_value[1], IntF(hist_data[k].sub.f))
             /\ FLeq(IntF(hist_data[k].sub.f), group_slider_value[2])

\* C13: whatever the subgroup widget was changed to, the plot of a (group1,
\* group2) pair displays exactly the rows of the pair whose subgroup value is
\* selected, and with every subgroup value selected every row of the table is
\* displayed in exactly one plot.
C13_WidgetSelectsBricks ==
    pc = "shown" =>
        /\ \A p \in ParamPlots :
              Displayed(p) = {k \in RowsOf(hist_data) :
                                 /\ hist_data[k].g1 = plots[p].group1
                                 /\ hist_data[k].g2 = plots[p].group2
                                 /\ SubgroupSelected(k)}
        /\ AllSubgroupsSelected =>
              \A k \in RowsOf(hist_data) :
                  Cardinality({p \in ParamPlots : k \in Displayed(p)}) = 1

SubgroupWidgets == {p \in 1..Len(plots) : plots[p].kind \in {"checkboxes", "slider"}}

Figures == {p \in 1..Len(plots) : plots[p].kind \in {"title", "param"}}

\* C14: exactly one subgroup widget is created, no widget is among the
\* objects the callback of the value slider updates (the entries of the list
\* after the value slider and the first entry behind it), and once the value
\* slider was moved every title figure and every parameter plot has the
\* slider's two values as start and end of its x_range.
C14_ValueSliderSetsRanges ==
    pc = "shown" =>
        /\ Cardinality(SubgroupWidgets) = 1
        /\ \A p \in 3..Len(plots) : p \in Figures
        /\ value_slider_value # initial_value_slider(hist_data) =>
              \A p \in Figures :
                  /\ plots[p].x_range.start = value_slider_value[1]
                  /\ plots[p].x_range.end = value_slider_value[2]

C14_Witness ==
    /\ pc = "shown"
    /\ value_slider_value = <<IntF(0), Num(1, 2, 0)>>
    /\ \E p \in SubgroupWidgets : plots[p].kind = "slider"
    /\ Cardinality(ParamPlots) = 2
    /\ \E p \in Figures : plots[p].kind = "title" /\ plots[p].x_range.end = Num(1, 2, 0)

====
